---------------------------- MODULE Spec2Model ----------------------------
(***************************************************************************)
(* A model of the YouTube-process backend (src/backend/python-fastapi):    *)
(*   - the streaming analysis pipeline of main.py (process_video_stream:   *)
(*     fragment accumulation, try_parse_video_info, try_parse_sections,    *)
(*     the final parse of LLMService.parse_analysis_result and its         *)
(*     fallbacks);                                                         *)
(*   - LLMService._sample_transcript;                                      *)
(*   - the chat memory of LLMService as driven by chat.py;                 *)
(*   - SearchYouTubeService.search_youtube and its cachetools.TTLCache.    *)
(*                                                                         *)
(* Generated text is a sequence of lexical units ("tokens").  A token is   *)
(* either one character that the scanners of the code look at ("{", "}",   *)
(* "[", "]", ",", the quote "Q", a letter "x") or a run of characters that *)
(* holds none of them: a quoted key with its colon ("id:" is "id" in       *)
(* quotes followed by a colon), a whole quoted string literal without      *)
(* special characters ("<s1>" is the JSON string s1 in quotes), or a       *)
(* markdown fence ("FENCE" opens a json code block, "ENDFENCE" closes      *)
(* it).  Texts hold no whitespace.  A fragment boundary inside a run       *)
(* changes nothing for the scanners: every span they cut ends at a "}"     *)
(* character.                                                              *)
(***************************************************************************)
EXTENDS Integers, Sequences, FiniteSets, TLC

VARIABLES
    \* ---- process_video_stream.generate (main.py) ----
    pc,                 \* position of the generator
    llm_text,           \* the text the generation stream is going to deliver
    full_response,      \* main.py:1337 the accumulated text
    video_info_sent,    \* main.py:1341
    sent_section_ids,   \* main.py:1342
    events,             \* the events yielded so far, in order
    store,              \* the youtube_videos record of the requested video
    store_writes,       \* the upserts made into youtube_videos
    usage,              \* the rows inserted into user_usage
    llm_calls,          \* the calls of analyze_video_transcript_stream
    request,            \* what the request met: its url, its language, the
                        \* store as it was and whether its lookup worked
    \* ---- LLMService._sample_transcript (llm_server.py) ----
    s_pc,               \* "input" before the call, "sampled" after it
    s_lines,            \* the input text: the length of each of its lines
    s_space,            \* the whitespace that starts and ends the input text
    s_max_chars,        \* max_chars
    s_out,              \* the returned text: the lines of each of its segments
    \* ---- the chat memory of LLMService, driven by chat.py ----
    chat_memories,      \* llm_server.py:90 memory_key -> deque of messages
    turns,              \* the number of chat requests and clears so far
    last_chat,          \* the last call: its inputs and the history it read
    run,                \* the appends made in a row to one session
    \* ---- SearchYouTubeService (youtube_search_service.py) ----
    cache,              \* the TTLCache: key -> [value, expires]
    links,              \* the TTLCache's keys, least recently used first
    now,                \* the cache timer (seconds)
    call,               \* per caller: where its search_youtube call stands
    inserted_at,        \* per key: when its entry was last inserted
    fetches,            \* the number of upstream requests made so far
    last_ok,            \* per key: the response that the last successful
                        \* call stored and when, since the last clear
    \* ---- the cache key of two searches (youtube_search_service.py) ----
    k_pc,               \* "input" before the keys are derived, "hashed" after
    k_first,            \* the keyword arguments of the first search
    k_second,           \* the keyword arguments of the second search
    k_keys              \* the cache keys of the two searches

stream_vars == <<pc, llm_text, full_response, video_info_sent,
                 sent_section_ids, events, store, store_writes, usage,
                 llm_calls, request>>
sampler_vars == <<s_pc, s_lines, s_space, s_max_chars, s_out>>
memory_vars == <<chat_memories, turns, last_chat, run>>
cache_vars == <<cache, links, now, call, inserted_at, fetches, last_ok>>
key_vars == <<k_pc, k_first, k_second, k_keys>>
vars == <<stream_vars, sampler_vars, memory_vars, cache_vars, key_vars>>

--------------------------------------------------------------------------
(* The components share no state.  Each specification below runs one of    *)
(* them and holds the others in these states.                              *)

Callers == {"c1", "c2"}

\* A caller that has not called search_youtube yet.
NoCall == [at |-> "idle", key |-> <<>>, age |-> -1, outcome |-> "none",
           value |-> -1, stored |-> -1]

\* No youtube_videos record for the video.
NoRecord == [found |-> FALSE, video_data |-> [k |-> "obj", s |-> <<>>,
                                              e |-> <<>>]]

\* No request has begun.
NoRequest == [video_id_ok |-> FALSE, language |-> "", lookup_ok |-> FALSE,
              held |-> NoRecord]

StreamIdle ==
    /\ pc = "idle"
    /\ llm_text = <<>>
    /\ full_response = <<>>
    /\ video_info_sent = FALSE
    /\ sent_section_ids = {}
    /\ events = <<>>
    /\ store = NoRecord
    /\ store_writes = 0
    /\ usage = 0
    /\ llm_calls = 0
    /\ request = NoRequest

SamplerIdle ==
    /\ s_pc = "input"
    /\ s_lines = <<>>
    /\ s_space = [lead |-> 0, trail |-> 0]
    /\ s_max_chars = 0
    /\ s_out = <<>>

NoChat == [header |-> "", host |-> "", video |-> "", user |-> "",
           op |-> "none", history |-> <<>>]
NoRun == [user |-> "", video |-> "", pairs |-> <<>>]

MemoryIdle ==
    /\ chat_memories = <<>>
    /\ turns = 0
    /\ last_chat = NoChat
    /\ run = NoRun

\* The class attribute _cache (youtube_search_service.py:132), empty.
KeyIdle ==
    /\ k_pc = "input"
    /\ k_first = <<>>
    /\ k_second = <<>>
    /\ k_keys = <<>>

CacheIdle ==
    /\ cache = <<>>
    /\ links = <<>>
    /\ now = 0
    /\ call = [c \in Callers |-> NoCall]
    /\ inserted_at = <<>>
    /\ fetches = 0
    /\ last_ok = <<>>

--------------------------------------------------------------------------
(* Tokens *)

Keys == {"videoInfo:", "sections:", "id:", "title:", "content:", "videoId:",
         "description:", "thumbnail:", "summary:", "timestampStart:"}

\* Whole quoted string literals.
Literals == {"<s1>", "<s2>", "<a>"}

\* What may stand between two quote characters.
StrChars == {"{", "}", "[", "]", ",", "x", "FENCE", "ENDFENCE"}

--------------------------------------------------------------------------
(* json.loads on a token sequence.  A parsed value is a record             *)
(*   [k |-> kind, s |-> string content, e |-> elements or members].        *)

JStr(s) == [k |-> "str", s |-> s, e |-> <<>>]
JArr(es) == [k |-> "arr", s |-> <<>>, e |-> es]
JObj(ms) == [k |-> "obj", s |-> <<>>, e |-> ms]
Member(key, val) == [key |-> key, val |-> val]

\* d[key] = val on the member list of a dict: a repeated key keeps its place
\* and takes the last value.
PutMember(ms, key, val) ==
    IF \E n \in 1..Len(ms) : ms[n].key = key
    THEN [n \in 1..Len(ms) |->
              IF ms[n].key = key THEN Member(key, val) ELSE ms[n]]
    ELSE Append(ms, Member(key, val))

ParseFail == [ok |-> FALSE, nxt |-> 0, val |-> JStr(<<>>)]
ParseOk(nxt, val) == [ok |-> TRUE, nxt |-> nxt, val |-> val]

RECURSIVE ParseString(_, _, _)
ParseString(t, i, acc) ==
    IF i > Len(t) THEN ParseFail
    ELSE IF t[i] = "Q" THEN ParseOk(i + 1, JStr(acc))
    ELSE IF t[i] \in StrChars THEN ParseString(t, i + 1, Append(acc, t[i]))
    ELSE ParseFail

RECURSIVE ParseValue(_, _)
RECURSIVE ParseMembers(_, _, _)
RECURSIVE ParseElems(_, _, _)

ParseValue(t, i) ==
    IF i > Len(t) THEN ParseFail
    ELSE IF t[i] = "{" THEN
        IF i + 1 <= Len(t) /\ t[i + 1] = "}" THEN ParseOk(i + 2, JObj(<<>>))
        ELSE ParseMembers(t, i + 1, <<>>)
    ELSE IF t[i] = "[" THEN
        IF i + 1 <= Len(t) /\ t[i + 1] = "]" THEN ParseOk(i + 2, JArr(<<>>))
        ELSE ParseElems(t, i + 1, <<>>)
    ELSE IF t[i] = "Q" THEN ParseString(t, i + 1, <<>>)
    ELSE IF t[i] \in Literals THEN ParseOk(i + 1, JStr(<<t[i]>>))
    ELSE ParseFail

ParseMembers(t, i, acc) ==
    IF i > Len(t) \/ t[i] \notin Keys THEN ParseFail
    ELSE LET v == ParseValue(t, i + 1) IN
         IF ~v.ok \/ v.nxt > Len(t) THEN ParseFail
         ELSE LET ms == PutMember(acc, t[i], v.val) IN
              IF t[v.nxt] = "," THEN ParseMembers(t, v.nxt + 1, ms)
              ELSE IF t[v.nxt] = "}" THEN ParseOk(v.nxt + 1, JObj(ms))
              ELSE ParseFail

ParseElems(t, i, acc) ==
    LET v == ParseValue(t, i) IN
    IF ~v.ok \/ v.nxt > Len(t) THEN ParseFail
    ELSE LET es == Append(acc, v.val) IN
         IF t[v.nxt] = "," THEN ParseElems(t, v.nxt + 1, es)
         ELSE IF t[v.nxt] = "]" THEN ParseOk(v.nxt + 1, JArr(es))
         ELSE ParseFail

\* json.loads(t): [ok, val]; it raises (ok = FALSE) on a syntax error and on
\* extra data after the value.
JsonLoads(t) ==
    LET r == ParseValue(t, 1) IN
    IF r.ok /\ r.nxt = Len(t) + 1 THEN [ok |-> TRUE, val |-> r.val]
    ELSE [ok |-> FALSE, val |-> JStr(<<>>)]

\* key in d, d[key]
HasKey(obj, key) == obj.k = "obj" /\ \E n \in 1..Len(obj.e) : obj.e[n].key = key
Get(obj, key) == obj.e[CHOOSE n \in 1..Len(obj.e) : obj.e[n].key = key].val

\* Python truthiness of a parsed value.
Truthy(v) == IF v.k = "str" THEN v.s # <<>> ELSE v.e # <<>>

--------------------------------------------------------------------------
(* The scanners of main.py and llm_server.py *)

\* re.sub(r'^```json?\s*', '', content.strip())
StripLeadFence(t) == IF t # <<>> /\ t[1] = "FENCE" THEN Tail(t) ELSE t

\* re.sub(r'\s*```$', '', text)
StripTrailFence(t) ==
    IF t # <<>> /\ t[Len(t)] = "ENDFENCE" THEN SubSeq(t, 1, Len(t) - 1) ELSE t

\* re.search(key \s* : \s* open): the index of the key of the first match,
\* 0 when there is none.
FindKeyOpen(t, key, open) ==
    LET hits == {i \in 1..(Len(t) - 1) : t[i] = key /\ t[i + 1] = open} IN
    IF hits = {} THEN 0 ELSE CHOOSE i \in hits : \A h \in hits : i <= h

\* The depth loop shared by the scanners: from position j with the depth so
\* far, the index of the "}" that brings the depth to 0, or 0 when the text
\* ends first.  Every "{" and "}" counts, wherever it stands.
RECURSIVE BraceClose(_, _, _)
BraceClose(t, j, depth) ==
    IF j > Len(t) THEN 0
    ELSE IF t[j] = "{" THEN BraceClose(t, j + 1, depth + 1)
    ELSE IF t[j] = "}" THEN
        IF depth - 1 = 0 THEN j ELSE BraceClose(t, j + 1, depth - 1)
    ELSE BraceClose(t, j + 1, depth)

NoValue == [ok |-> FALSE, val |-> JStr(<<>>)]

\* try_parse_video_info(content): [ok, val]; ok = FALSE stands for None.
try_parse_video_info(content) ==
    LET text == StripLeadFence(content)
        m == FindKeyOpen(text, "videoInfo:", "{")
        start == m + 1
        close == BraceClose(text, start, 0)
    IN IF m = 0 \/ close = 0 THEN NoValue
       ELSE JsonLoads(SubSeq(text, start, close))

\* while i < len(text) and text[i] in ' \t\n\r,': i += 1
RECURSIVE SkipSeparators(_, _)
SkipSeparators(t, i) ==
    IF i <= Len(t) /\ t[i] = "," THEN SkipSeparators(t, i + 1) ELSE i

\* Whether the parsed object is appended to new_sections: its id is truthy
\* and not in seen_ids.  Only a string can pass: a list or dict id makes the
\* membership test raise, which the bare except swallows.
IsNewSection(r, seen) ==
    /\ r.ok
    /\ HasKey(r.val, "id:")
    /\ Get(r.val, "id:").k = "str"
    /\ Truthy(Get(r.val, "id:"))
    /\ Get(r.val, "id:").s \notin seen

\* A scan that does not record the ids it emits.
AddSeenForgotten(seen, id) == seen

\* seen_ids.add(section['id'])
AddSeen(seen, id) == seen \cup {id}

\* The while loop of try_parse_sections from index i on.
RECURSIVE ScanSections(_, _, _, _)
ScanSections(text, i0, seen, new) ==
    LET i == SkipSeparators(text, i0) IN
    IF i > Len(text) \/ text[i] = "]" THEN [new |-> new, seen |-> seen]
    ELSE IF text[i] # "{" THEN ScanSections(text, i + 1, seen, new)
    ELSE LET j == BraceClose(text, i, 0) IN
         IF j = 0 THEN [new |-> new, seen |-> seen]
         ELSE LET r == JsonLoads(SubSeq(text, i, j)) IN
              IF IsNewSection(r, seen)
              THEN ScanSections(text, j + 1,
                                AddSeen(seen, Get(r.val, "id:").s),
                                Append(new, r.val))
              ELSE ScanSections(text, j + 1, seen, new)

\* try_parse_sections(content, seen_ids): the new sections, in order, and
\* seen_ids as the call leaves it.
try_parse_sections(content, seen_ids) ==
    LET text == StripLeadFence(content)
        m == FindKeyOpen(text, "sections:", "[")
    IN IF m = 0 THEN [new |-> <<>>, seen |-> seen_ids]
       ELSE ScanSections(text, m + 2, seen_ids, <<>>)

--------------------------------------------------------------------------
(* The final parse: LLMService.parse_analysis_result and the pydantic      *)
(* models of llm_server.py                                                 *)

IsStrField(obj, key) == HasKey(obj, key) /\ Get(obj, key).k = "str"

\* ContentItem(content: str, timestampStart: str)
ValidContentItem(v) ==
    /\ v.k = "obj"
    /\ IsStrField(v, "content:")
    /\ IsStrField(v, "timestampStart:")

\* Section(id: str, title: str, content: List[ContentItem])
ValidSection(v) ==
    /\ v.k = "obj"
    /\ IsStrField(v, "id:")
    /\ IsStrField(v, "title:")
    /\ HasKey(v, "content:")
    /\ Get(v, "content:").k = "arr"
    /\ \A n \in 1..Len(Get(v, "content:").e) :
           ValidContentItem(Get(v, "content:").e[n])

\* VideoInfo(title, videoId, description, thumbnail, summary: str)
VideoInfoFields ==
    <<"title:", "videoId:", "description:", "thumbnail:", "summary:">>

ValidVideoInfo(v) ==
    /\ v.k = "obj"
    /\ \A n \in 1..Len(VideoInfoFields) : IsStrField(v, VideoInfoFields[n])

\* VideoAnalysisResult(**data) does not raise.
ValidVideoAnalysisResult(data) ==
    /\ data.k = "obj"
    /\ HasKey(data, "videoInfo:")
    /\ ValidVideoInfo(Get(data, "videoInfo:"))
    /\ HasKey(data, "sections:")
    /\ Get(data, "sections:").k = "arr"
    /\ \A n \in 1..Len(Get(data, "sections:").e) :
           ValidSection(Get(data, "sections:").e[n])

\* model_dump(): the declared fields, in declaration order.
DumpContentItem(v) ==
    JObj(<<Member("content:", Get(v, "content:")),
           Member("timestampStart:", Get(v, "timestampStart:"))>>)

DumpSection(v) ==
    JObj(<<Member("id:", Get(v, "id:")),
           Member("title:", Get(v, "title:")),
           Member("content:",
                  JArr([n \in 1..Len(Get(v, "content:").e) |->
                            DumpContentItem(Get(v, "content:").e[n])]))>>)

DumpVideoInfo(v) ==
    JObj([n \in 1..Len(VideoInfoFields) |->
              Member(VideoInfoFields[n], Get(v, VideoInfoFields[n]))])

model_dump(data) ==
    JObj(<<Member("videoInfo:", DumpVideoInfo(Get(data, "videoInfo:"))),
           Member("sections:",
                  JArr([n \in 1..Len(Get(data, "sections:").e) |->
                            DumpSection(Get(data, "sections:").e[n])]))>>)

\* text.find('{'): 0 when there is none.
FindBrace(t) ==
    LET hits == {i \in 1..Len(t) : t[i] = "{"} IN
    IF hits = {} THEN 0 ELSE CHOOSE i \in hits : \A h \in hits : i <= h

\* parse_analysis_result(raw_text).model_dump(): [ok, val]; ok = FALSE when
\* it raises.
parse_analysis_result(raw_text) ==
    LET text == StripTrailFence(StripLeadFence(raw_text))
        start == FindBrace(text)
        close == IF start = 0 THEN 0 ELSE BraceClose(text, start, 0)
        json_str == IF close = 0 THEN <<>> ELSE SubSeq(text, start, close)
        data == JsonLoads(json_str)
    IN IF start # 0 /\ data.ok /\ ValidVideoAnalysisResult(data.val)
       THEN [ok |-> TRUE, val |-> model_dump(data.val)]
       ELSE NoValue

\* details.get('title', '') and video_id of the request.
DetailsTitle == JStr(<<"<details-title>">>)
VideoId == JStr(<<"<video-id>">>)

\* main.py:1461
FallbackDocument ==
    JObj(<<Member("videoInfo:",
                  JObj(<<Member("title:", DetailsTitle),
                         Member("videoId:", VideoId)>>)),
           Member("sections:", JArr(<<>>))>>)

\* A final parse that has no skeleton to fall back on.
video_data_json_without_fallback(response) ==
    LET parsed == parse_analysis_result(response)
        raw == JsonLoads(StripTrailFence(StripLeadFence(response)))
    IN IF parsed.ok THEN parsed.val
       ELSE raw.val

\* video_data_json after main.py:1449-1461
video_data_json(response) ==
    LET parsed == parse_analysis_result(response)
        raw == JsonLoads(StripTrailFence(StripLeadFence(response)))
    IN IF parsed.ok THEN parsed.val
       ELSE IF raw.ok THEN raw.val
       ELSE FallbackDocument

\* main.py:1464-1470 on a dict.  video_title is the title that
\* extract_youtube_chapters returned (<<>>: none, or the call raised); the
\* chapter list itself is left out (an empty list).
WithChapters(doc, video_title) ==
    LET titled ==
            IF /\ video_title # <<>>
               /\ HasKey(doc, "videoInfo:")
               /\ Get(doc, "videoInfo:").k = "obj"
            THEN JObj(PutMember(doc.e, "videoInfo:",
                     JObj(PutMember(Get(doc, "videoInfo:").e, "title:",
                                    JStr(video_title)))))
            ELSE doc
    IN JObj(PutMember(titled.e, "chapters:", JArr(<<>>)))

\* The ids of the sections of a document, as a caller reads them.
SectionIds(doc) ==
    IF HasKey(doc, "sections:") /\ Get(doc, "sections:").k = "arr"
    THEN LET secs == Get(doc, "sections:").e IN
         {Get(secs[n], "id:").s :
              n \in {m \in 1..Len(secs) :
                        HasKey(secs[m], "id:") /\ Get(secs[m], "id:").k = "str"}}
    ELSE {}

--------------------------------------------------------------------------
(* The texts the generation stream may deliver *)

MaxSections == 2

VideoInfoShort == <<"videoInfo:", "{", "title:", "<a>", "}">>

VideoInfoFull ==
    <<"videoInfo:", "{", "title:", "<a>", ",", "videoId:", "<a>", ",",
      "description:", "<a>", ",", "thumbnail:", "<a>", ",",
      "summary:", "<a>", "}">>

\* A section that satisfies the schema.
SectionFull(id) ==
    <<"{", "id:", id, ",", "title:", "<a>", ",", "content:", "[",
      "{", "content:", "<a>", ",", "timestampStart:", "<a>", "}", "]", "}">>

\* A section that satisfies the schema, whose title holds a "}" and whose
\* content item carries an id of its own.
SectionFullBrace(id, inner) ==
    <<"{", "id:", id, ",", "title:", "Q", "}", "Q", ",", "content:", "[",
      "{", "id:", inner, ",", "content:", "<a>", ",",
      "timestampStart:", "<a>", "}", "]", "}">>

\* Short section objects: plain, with a "}" or a "{" inside a string value,
\* and with a nested object that has an id.
SectionObjs ==
    { <<"{", "id:", "<s1>", "}">>,
      <<"{", "id:", "<s2>", "}">>,
      <<"{", "id:", "<s1>", ",", "title:", "Q", "}", "Q", "}">>,
      <<"{", "id:", "<s2>", ",", "title:", "Q", "{", "Q", "}">>,
      <<"{", "title:", "Q", "x", "}", "Q", ",", "content:", "[",
        "{", "id:", "<s2>", "}", "]", "}">> }

RECURSIVE JoinComma(_)
JoinComma(ss) ==
    IF ss = <<>> THEN <<>>
    ELSE IF Len(ss) = 1 THEN ss[1]
    ELSE ss[1] \o <<",">> \o JoinComma(Tail(ss))

Document(head, secs) ==
    <<"{">> \o head \o <<",", "sections:", "[">> \o JoinComma(secs)
            \o <<"]", "}">>

GeneratedTexts ==
    {Document(VideoInfoShort, ss) :
         ss \in UNION {[1..n -> SectionObjs] : n \in 0..MaxSections}}

DuplicateText ==
    Document(VideoInfoFull, <<SectionFull("<s1>"), SectionFull("<s1>")>>)

BraceInSectionText ==
    Document(VideoInfoFull, <<SectionFullBrace("<s1>", "<s2>")>>)

BraceInSummaryText ==
    <<"{", "videoInfo:", "{", "title:", "Q", "x", "}", "Q", ",",
      "videoId:", "<a>", "}", ",", "sections:", "[",
      "{", "id:", "<s1>", "}", "]", "}">>

CuratedTexts ==
    { Document(VideoInfoFull, <<SectionFull("<s1>"), SectionFull("<s2>")>>),
      DuplicateText,
      BraceInSectionText,
      BraceInSummaryText,
      \* a valid document followed by text that is not JSON
      Document(VideoInfoFull, <<SectionFull("<s1>")>>) \o <<"x">>,
      \* a fenced document
      <<"FENCE">> \o Document(VideoInfoFull, <<SectionFull("<s1>")>>)
                  \o <<"ENDFENCE">>,
      \* a "sections" key inside the summary object
      <<"{", "videoInfo:", "{", "sections:", "[", "{", "id:", "<s2>", "}",
        "]", "}", ",", "sections:", "[", "{", "id:", "<s1>", "}", "]", "}">>,
      \* the sections before the summary
      <<"{", "sections:", "[", "{", "id:", "<s1>", "}", "]", ",",
        "videoInfo:", "{", "title:", "<a>", "}", "}">>,
      \* a summary that is a string, not an object
      <<"{", "videoInfo:", "<a>", ",", "sections:", "[", "]", "}">>,
      \* a section cut short by a "}" in its title, then two plain sections,
      \* the second with the id of the first
      Document(VideoInfoShort,
               << <<"{", "id:", "<s2>", ",", "title:", "Q", "}", "Q", "}">>,
                  <<"{", "id:", "<s1>", "}">>,
                  <<"{", "id:", "<s2>", "}">> >>),
      \* JSON that is not an object
      <<"[", "{", "sections:", "[", "{", "id:", "<s1>", "}", "]", "}", "]">> }

Texts == GeneratedTexts \cup CuratedTexts

\* What extract_youtube_chapters may return as the title.
ChapterTitles == {<<>>, <<"<page-title>">>}

--------------------------------------------------------------------------
(* process_video_stream.generate (main.py:1289-1504) *)

Event(type, data) == [type |-> type, data |-> data]

\* The new sections sent last first.
RECURSIVE SectionEventsReversed(_)
SectionEventsReversed(new) ==
    IF new = <<>> THEN <<>>
    ELSE SectionEventsReversed(Tail(new)) \o <<Event("section", new[1])>>

\* yield send_event("section", section) for each new section
RECURSIVE SectionEvents(_)
SectionEvents(new) ==
    IF new = <<>> THEN <<>>
    ELSE <<Event("section", new[1])>> \o SectionEvents(Tail(new))

\* The generator at its async for loop (main.py:1422): the video has no
\* record in the store and the generation stream was just invoked.
InitStream ==
    /\ SamplerIdle /\ MemoryIdle /\ CacheIdle /\ KeyIdle
    /\ pc = "stream"
    /\ llm_text \in Texts
    /\ full_response = <<>>
    /\ video_info_sent = FALSE
    /\ sent_section_ids = {}
    /\ events = <<>>
    /\ store = NoRecord
    /\ store_writes = 0
    /\ usage = 0
    /\ llm_calls = 1
    /\ request = [video_id_ok |-> TRUE, language |-> "en",
                  lookup_ok |-> TRUE, held |-> NoRecord]

\* One iteration of the async for loop (main.py:1422-1443): the stream
\* delivers the next n tokens as one fragment.
Chunk(n) ==
    /\ pc = "stream"
    /\ Len(full_response) + n <= Len(llm_text)
    /\ LET buffer == SubSeq(llm_text, 1, Len(full_response) + n)
           video_info == try_parse_video_info(buffer)
           send_info == ~video_info_sent /\ video_info.ok /\ Truthy(video_info.val)
           sections == try_parse_sections(buffer, sent_section_ids)
       IN /\ full_response' = buffer
          /\ video_info_sent' = (video_info_sent \/ send_info)
          /\ sent_section_ids' = sections.seen
          /\ events' = events
                       \o (IF send_info
                           THEN <<Event("video_info", video_info.val)>>
                           ELSE <<>>)
                       \o SectionEvents(sections.new)
    /\ UNCHANGED <<pc, llm_text, store, store_writes, usage, llm_calls,
                   request>>
    /\ UNCHANGED <<sampler_vars, memory_vars, cache_vars, key_vars>>

\* The stream ends (main.py:1445-1473): the final parse, the chapters, and
\* the [DONE] event; a document that is not a dict makes the chapter
\* assignments raise, which the outer handler turns into an [ERROR] event.
StreamEnd(video_title) ==
    /\ pc = "stream"
    /\ LET doc == video_data_json(full_response) IN
       IF doc.k = "obj"
       THEN /\ events' = Append(events, Event("done", WithChapters(doc, video_title)))
            /\ pc' = "done"
       ELSE /\ events' = Append(events, Event("error", JStr(<<>>)))
            /\ pc' = "error"
    /\ UNCHANGED <<llm_text, full_response, video_info_sent, sent_section_ids,
                   store, store_writes, usage, llm_calls, request>>
    /\ UNCHANGED <<sampler_vars, memory_vars, cache_vars, key_vars>>

\* A failure of the stream that is swallowed: no event.
StreamErrorSilent ==
    /\ pc = "stream"
    /\ pc' = "failed"
    /\ UNCHANGED <<llm_text, full_response, video_info_sent, sent_section_ids,
                   events, store, store_writes, usage, llm_calls, request>>
    /\ UNCHANGED <<sampler_vars, memory_vars, cache_vars, key_vars>>

\* A failure of the stream that is answered by invoking the stream again.
StreamErrorRetried ==
    /\ pc = "stream"
    /\ llm_calls < 3
    /\ llm_calls' = llm_calls + 1
    /\ UNCHANGED <<pc, llm_text, full_response, video_info_sent,
                   sent_section_ids, events, store, store_writes, usage,
                   request>>
    /\ UNCHANGED <<sampler_vars, memory_vars, cache_vars, key_vars>>

\* A failure of the stream after which what was accumulated is saved.
StreamErrorPersisted ==
    /\ pc = "stream"
    /\ events' = Append(events, Event("error", JStr(<<>>)))
    /\ pc' = "failed"
    /\ store' = [found |-> TRUE, video_data |-> video_data_json(full_response)]
    /\ store_writes' = store_writes + 1
    /\ UNCHANGED <<llm_text, full_response, video_info_sent, sent_section_ids,
                   usage, llm_calls, request>>
    /\ UNCHANGED <<sampler_vars, memory_vars, cache_vars, key_vars>>

\* The stream raises (main.py:1500-1504).
StreamError ==
    /\ pc = "stream"
    /\ events' = Append(events, Event("error", JStr(<<>>)))
    /\ pc' = "failed"
    /\ UNCHANGED <<llm_text, full_response, video_info_sent, sent_section_ids,
                   store, store_writes, usage, llm_calls, request>>
    /\ UNCHANGED <<sampler_vars, memory_vars, cache_vars, key_vars>>

\* A save of the parsed document as it was before the chapters and the
\* page title were put in.
PersistBeforeChapters(user_id, save_ok, usage_ok) ==
    /\ pc = "done"
    /\ LET doc == events[Len(events)].data IN
       IF HasKey(doc, "videoInfo:") /\ Get(doc, "videoInfo:").k # "obj"
       THEN /\ events' = Append(events, Event("error", JStr(<<>>)))
            /\ pc' = "error"
            /\ UNCHANGED <<store, store_writes, usage>>
       ELSE /\ store' = IF save_ok
                        THEN [found |-> TRUE,
                              video_data |-> video_data_json(full_response)]
                        ELSE store
            /\ store_writes' = IF save_ok THEN store_writes + 1
                               ELSE store_writes
            /\ usage' = IF user_id # "" /\ usage_ok THEN usage + 1
                        ELSE usage
            /\ pc' = "finished"
            /\ UNCHANGED events
    /\ UNCHANGED <<llm_text, full_response, video_info_sent, sent_section_ids,
                   llm_calls, request>>
    /\ UNCHANGED <<sampler_vars, memory_vars, cache_vars, key_vars>>

\* The generator is resumed after the [DONE] event (main.py:1476-1498):
\* the title is read from the document, which raises when videoInfo is not
\* a dict and then yields an [ERROR] event; otherwise the document is
\* upserted (save_video_to_supabase swallows a failure) and, for a request
\* with a user_id, a usage row is inserted (record_user_usage swallows a
\* failure).
Persist(user_id, save_ok, usage_ok) ==
    /\ pc = "done"
    /\ LET doc == events[Len(events)].data IN
       IF HasKey(doc, "videoInfo:") /\ Get(doc, "videoInfo:").k # "obj"
       THEN /\ events' = Append(events, Event("error", JStr(<<>>)))
            /\ pc' = "error"
            /\ UNCHANGED <<store, store_writes, usage>>
       ELSE /\ store' = IF save_ok
                        THEN [found |-> TRUE, video_data |-> doc]
                        ELSE store
            /\ store_writes' = IF save_ok THEN store_writes + 1
                               ELSE store_writes
            /\ usage' = IF user_id # "" /\ usage_ok THEN usage + 1
                        ELSE usage
            /\ pc' = "finished"
            /\ UNCHANGED events
    /\ UNCHANGED <<llm_text, full_response, video_info_sent, sent_section_ids,
                   llm_calls, request>>
    /\ UNCHANGED <<sampler_vars, memory_vars, cache_vars, key_vars>>

\* request_data.user_id: "" stands for None.
RequestUserIds == {"", "u"}

NextStream ==
    \/ \E n \in 1..Len(llm_text) : Chunk(n)
    \/ \E t \in ChapterTitles : StreamEnd(t)
    \/ StreamError
    \/ \E u \in RequestUserIds, save_ok \in BOOLEAN, usage_ok \in BOOLEAN :
           Persist(u, save_ok, usage_ok)

SpecStream == InitStream /\ [][NextStream]_vars

--------------------------------------------------------------------------
(* A whole request to POST /api/process-video/stream *)

\* The record of the video that the store may hold when a request arrives:
\* none, one with an empty video_data, one with a document.
StoredDocument ==
    JObj(<<Member("videoInfo:",
                  JObj(<<Member("title:", JStr(<<"<stored-title>">>)),
                         Member("videoId:", VideoId)>>)),
           Member("sections:", JArr(<<JObj(<<Member("id:", JStr(<<"<s1>">>))>>)>>))>>)

Stores ==
    {NoRecord,
     [found |-> TRUE, video_data |-> JObj(<<>>)],
     [found |-> TRUE, video_data |-> StoredDocument]}

\* request_data.language
Languages == {"en", "zh"}

\* The texts a whole request is run on.
RequestTexts == CuratedTexts

\* A request that never serves from the store.
CacheHitNever(cached_record) == FALSE

\* main.py:1306
CacheHit(cached_record) ==
    cached_record.found /\ Truthy(cached_record.video_data)

\* translate_cached_data (main.py:1568-1580) for a language that is not
\* English: the translation, or the data as it is when translating fails.
\* A translation is the document with a mark.
translate_cached_data(cached_data, language, translated) ==
    IF language = "en" \/ ~translated THEN cached_data
    ELSE JObj(PutMember(cached_data.e, "translated:", JStr(<<language>>)))

InitRequest ==
    /\ SamplerIdle /\ MemoryIdle /\ CacheIdle /\ KeyIdle
    /\ pc = "start"
    /\ llm_text = <<>>
    /\ full_response = <<>>
    /\ video_info_sent = FALSE
    /\ sent_section_ids = {}
    /\ events = <<>>
    /\ store \in Stores
    /\ store_writes = 0
    /\ usage = 0
    /\ llm_calls = 0
    /\ request = NoRequest

\* generate() up to its first yield or to the async for loop
\* (main.py:1290-1422):
\*   video_id_ok: extract_video_id found an id in the url;
\*   lookup_ok: get_cached_video_from_supabase reached the store (it
\*     returns None when the lookup raises, main.py:76-78);
\*   transcript_ok: get_full_transcript returned a transcript and details;
\*   text: what the generation stream is going to deliver.
Begin(video_id_ok, language, lookup_ok, translated, transcript_ok, text) ==
    /\ pc = "start"
    /\ request' = [video_id_ok |-> video_id_ok, language |-> language,
                   lookup_ok |-> lookup_ok, held |-> store]
    /\ LET cached_record == IF lookup_ok THEN store ELSE NoRecord IN
       IF ~video_id_ok
       THEN /\ events' = Append(events, Event("error", JStr(<<>>)))
            /\ pc' = "returned"
            /\ UNCHANGED <<llm_text, llm_calls>>
       ELSE IF CacheHit(cached_record)
       THEN /\ events' = Append(events,
                   Event("cached",
                         IF language # "" /\ language # "en"
                         THEN translate_cached_data(cached_record.video_data,
                                                    language, translated)
                         ELSE cached_record.video_data))
            /\ pc' = "returned"
            /\ UNCHANGED <<llm_text, llm_calls>>
       ELSE IF ~transcript_ok
       THEN /\ events' = Append(events, Event("error", JStr(<<>>)))
            /\ pc' = "returned"
            /\ UNCHANGED <<llm_text, llm_calls>>
       ELSE /\ llm_text' = text
            /\ llm_calls' = llm_calls + 1
            /\ pc' = "stream"
            /\ UNCHANGED events
    /\ UNCHANGED <<full_response, video_info_sent, sent_section_ids, store,
                   store_writes, usage>>
    /\ UNCHANGED <<sampler_vars, memory_vars, cache_vars, key_vars>>

NextRequest ==
    \/ \E video_id_ok \in BOOLEAN, language \in Languages,
          lookup_ok \in BOOLEAN, translated \in BOOLEAN,
          transcript_ok \in BOOLEAN, text \in RequestTexts :
           Begin(video_id_ok, language, lookup_ok, translated,
                 transcript_ok, text)
    \/ NextStream

\* The generator leaves the phase it is in.
PhaseAdvances ==
    /\ pc \in {"start", "stream", "done"}
    /\ \E phase \in {"stream", "returned", "done", "failed", "finished", "error"} :
           /\ phase # pc
           /\ pc' = phase

\* The response iterates the generator as long as it yields, and the
\* generation stream does not deliver for ever: it ends or it fails.
SpecRequest == InitRequest /\ [][NextRequest]_vars /\ WF_pc(PhaseAdvances)

\* The request is cancelled (the client is gone) while the generator is
\* suspended at the await of its async for loop or at a yield of the loop
\* or of [DONE]: CancelledError or GeneratorExit is raised there, which
\* the `except Exception` of main.py:1500 does not catch, and the
\* generator ends.
Cancel ==
    /\ pc \in {"stream", "done"}
    /\ pc' = "cancelled"
    /\ UNCHANGED <<llm_text, full_response, video_info_sent, sent_section_ids,
                   events, store, store_writes, usage, llm_calls, request>>
    /\ UNCHANGED <<sampler_vars, memory_vars, cache_vars, key_vars>>

NextCancellable == NextRequest \/ Cancel

\* Requests that may be cancelled.
SpecCancellable == InitRequest /\ [][NextCancellable]_vars

--------------------------------------------------------------------------
(* Claims about the streaming pipeline *)

SectionEventIndexes == {i \in 1..Len(events) : events[i].type = "section"}
EmittedSectionIds == {Get(events[i].data, "id:").s : i \in SectionEventIndexes}
DoneEventIndexes == {i \in 1..Len(events) : events[i].type = "done"}

\* C1: within one stream no two section events carry the same id, however
\* the text is split into fragments; an object whose id was already emitted
\* is dropped.
C1_NoDuplicateSectionEvents ==
    \A i, j \in SectionEventIndexes :
        i # j => Get(events[i].data, "id:") # Get(events[j].data, "id:")

\* C1 witness: the whole text with two sections of id s1 has been consumed
\* and exactly one section event was emitted.
C1_Witness ==
    /\ llm_text = DuplicateText
    /\ full_response = llm_text
    /\ Cardinality(SectionEventIndexes) = 1

\* C2: the section ids of the document of the done event include every
\* section id emitted as a section event before it.
C2_DoneSupersetOfEmitted ==
    \A d \in DoneEventIndexes :
        \A i \in SectionEventIndexes :
            i < d => Get(events[i].data, "id:").s \in SectionIds(events[d].data)

\* C3: when the accumulated text is valid JSON, every emitted section id is
\* the id of a section of the final document.
C3_EmittedInFinalWhenValidJson ==
    (pc = "done" /\ JsonLoads(full_response).ok)
        => \A d \in DoneEventIndexes :
               EmittedSectionIds \subseteq SectionIds(events[d].data)


(* C4 is stated against the scan that the specification describes: the     *)
(* same loops, with braces between two quote characters left uncounted.    *)

RECURSIVE QuoteAwareClose(_, _, _, _)
QuoteAwareClose(t, j, depth, in_string) ==
    IF j > Len(t) THEN 0
    ELSE IF t[j] = "Q" THEN QuoteAwareClose(t, j + 1, depth, ~in_string)
    ELSE IF in_string THEN QuoteAwareClose(t, j + 1, depth, in_string)
    ELSE IF t[j] = "{" THEN QuoteAwareClose(t, j + 1, depth + 1, in_string)
    ELSE IF t[j] = "}" THEN
        IF depth - 1 = 0 THEN j
        ELSE QuoteAwareClose(t, j + 1, depth - 1, in_string)
    ELSE QuoteAwareClose(t, j + 1, depth, in_string)

QuoteAwareVideoInfo(content) ==
    LET text == StripLeadFence(content)
        m == FindKeyOpen(text, "videoInfo:", "{")
        close == QuoteAwareClose(text, m + 1, 0, FALSE)
    IN IF m = 0 \/ close = 0 THEN NoValue
       ELSE JsonLoads(SubSeq(text, m + 1, close))

RECURSIVE QuoteAwareScan(_, _, _)
QuoteAwareScan(text, i0, seen) ==
    LET i == SkipSeparators(text, i0) IN
    IF i > Len(text) \/ text[i] = "]" THEN seen
    ELSE IF text[i] # "{" THEN QuoteAwareScan(text, i + 1, seen)
    ELSE LET j == QuoteAwareClose(text, i, 0, FALSE) IN
         IF j = 0 THEN seen
         ELSE LET r == JsonLoads(SubSeq(text, i, j)) IN
              QuoteAwareScan(text, j + 1,
                  IF IsNewSection(r, seen)
                  THEN seen \cup {Get(r.val, "id:").s} ELSE seen)

QuoteAwareSectionIds(content) ==
    LET text == StripLeadFence(content)
        m == FindKeyOpen(text, "sections:", "[")
    IN IF m = 0 THEN {} ELSE QuoteAwareScan(text, m + 2, {})

\* C4: a brace inside a quoted string value of the summary object or of a
\* section object changes nothing: what has been emitted once a fragment
\* was scanned is what the quote-aware scan finds closed in the buffer.
C4_BracesInStringsIgnored ==
    full_response # <<>> =>
        /\ video_info_sent =
               (QuoteAwareVideoInfo(full_response).ok
                /\ Truthy(QuoteAwareVideoInfo(full_response).val))
        /\ sent_section_ids = QuoteAwareSectionIds(full_response)

--------------------------------------------------------------------------
(* LLMService._sample_transcript (llm_server.py:612-627)                   *)
(*                                                                         *)
(* A text is the sequence of the lengths of its lines, joined by one       *)
(* newline each; the lines hold no leading or trailing whitespace, so      *)
(* text.strip() changes nothing.  The returned text is a sequence of       *)
(* segments, each the indexes of the lines it holds, lines joined by a     *)
(* newline and segments by the gap marker.                                 *)

MaxLines == 21
ShortLine == 3
LongLine == 120
Budgets == {10, 100}

num_segments == 10

\* len("\n\n[...]\n\n")
GapLen == 9

\* A line of a text as it is returned: the index of the input line it
\* comes from and the number of its characters that are returned.
Line(i, len) == [line |-> i, len |-> len]

RECURSIVE SumLens(_)
SumLens(lines) ==
    IF lines = <<>> THEN 0 ELSE lines[1].len + SumLens(Tail(lines))

\* len('\n'.join(lines))
JoinedLen(lines) ==
    IF lines = <<>> THEN 0 ELSE SumLens(lines) + (Len(lines) - 1)

\* text.split('\n')
AllLines(lens) == [i \in 1..Len(lens) |-> Line(i, lens[i])]

\* len(text)
TextLen(lens) == JoinedLen(AllLines(lens))

RECURSIVE SumSegments(_)
SumSegments(segs) ==
    IF segs = <<>> THEN 0
    ELSE JoinedLen(segs[1]) + SumSegments(Tail(segs))

\* The length of the returned text.
SampledLen(segs) ==
    IF segs = <<>> THEN 0
    ELSE SumSegments(segs) + GapLen * (Len(segs) - 1)

Min(a, b) == IF a <= b THEN a ELSE b

\* text.strip().split('\n') (llm_server.py:617): the whitespace that
\* starts the first line and the whitespace that ends the last line are
\* gone.
StrippedLines(lens, space) ==
    [i \in 1..Len(lens) |->
        Line(i, lens[i] - (IF i = 1 THEN space.lead ELSE 0)
                        - (IF i = Len(lens) THEN space.trail ELSE 0))]

\* Segments that share their border line.
SegmentOverlapping(lines, lines_per_seg, i) ==
    LET start == i * lines_per_seg
        stop == Min(start + lines_per_seg + 1, Len(lines))
    IN SubSeq(lines, start + 1, stop)

\* lines[start:end] with start = i * lines_per_seg and
\* end = min(start + lines_per_seg, len(lines)).
Segment(lines, lines_per_seg, i) ==
    LET start == i * lines_per_seg
        stop == Min(start + lines_per_seg, Len(lines))
    IN SubSeq(lines, start + 1, stop)

\* The returned text, as its segments (the texts between the gap markers);
\* a text that is returned as it is is one segment.
_sample_transcript(lens, space, max_chars) ==
    IF TextLen(lens) <= max_chars THEN <<AllLines(lens)>>
    ELSE LET lines == StrippedLines(lens, space)
             lines_per_seg == Len(lines) \div num_segments
         IN [i \in 1..num_segments |-> Segment(lines, lines_per_seg, i - 1)]

\* The texts sampled: up to MaxLines short lines, one of them possibly long.
SamplerInputs ==
    {[i \in 1..n |-> IF i = k THEN LongLine ELSE ShortLine] :
         n \in 1..MaxLines, k \in 0..MaxLines}

\* The whitespace at the two ends of a text: none, or one character.  The
\* first and the last line have other characters too.
Spaces == [lead : {0, 1}, trail : {0, 1}]

InitSampler ==
    /\ StreamIdle /\ MemoryIdle /\ CacheIdle /\ KeyIdle
    /\ s_pc = "input"
    /\ s_lines \in SamplerInputs
    /\ s_space \in Spaces
    /\ s_max_chars \in Budgets
    /\ s_out = <<>>

Sample ==
    /\ s_pc = "input"
    /\ s_out' = _sample_transcript(s_lines, s_space, s_max_chars)
    /\ s_pc' = "sampled"
    /\ UNCHANGED <<s_lines, s_space, s_max_chars, stream_vars, memory_vars,
                   cache_vars, key_vars>>

NextSampler == Sample

SpecSampler == InitSampler /\ [][NextSampler]_vars

\* C5: a text longer than max_chars is returned with at most max_chars
\* characters; a text of at most max_chars characters is returned as it is.
C5_SampleWithinBudget ==
    s_pc = "sampled" =>
        IF TextLen(s_lines) > s_max_chars
        THEN SampledLen(s_out) <= s_max_chars
        ELSE s_out = <<AllLines(s_lines)>>

--------------------------------------------------------------------------
(* The chat memory: LLMService (llm_server.py:89-115, 307-370) as driven   *)
(* by the chat route (chat.py:34-92).  The route is a coroutine that calls *)
(* the synchronous chat_with_video and never awaits: a request runs to its *)
(* end before the event loop serves another one.                           *)
(* The text of a message is abstracted to the ordinal of its turn in its   *)
(* memory: the question of turn n and its answer are both called n.        *)

MaxTurns == 6

_memory_window_size == 5

\* The requests made to POST /api/chat, as <<header, host, video_context>>:
\*   header: request.headers.get("X-Session-ID"), "" when there is none;
\*   host: request.client.host, "" when it is not known;
\*   video_context: the videoId of chat_request.video_context, <<>> when
\*     there is no context or no videoId in it.
ChatRequests ==
    {<<"", "h", <<"c">>>>,
     <<"", "", <<>>>>,
     <<"a", "h", <<"b:c">>>>,
     <<"a:b", "h", <<"c">>>>}

\* An identifier that does not fall back on the client host.
ChatUserIdWithoutHost(header, host) ==
    IF header # "" THEN header ELSE "anonymous"

\* chat.py:60
ChatUserId(header, host) ==
    IF header # "" THEN header
    ELSE IF host # "" THEN host
    ELSE "anonymous"

\* chat.py:69
ChatVideoId(video_context) ==
    IF video_context # <<>> THEN video_context[1] ELSE "default"

UserIds == {ChatUserId(r[1], r[2]) : r \in ChatRequests}
VideoIds == {ChatVideoId(r[3]) : r \in ChatRequests}

\* The sessions: <<user identifier, video identifier>>.
Sessions == UserIds \X VideoIds

memory_key(user_id, video_id) == user_id \o ":" \o video_id

HumanMessage(content) == [role |-> "human", content |-> content]
AIMessage(content) == [role |-> "ai", content |-> content]

\* A deque without maxlen.
unbounded_append(d, maxlen, x) == Append(d, x)

\* collections.deque(maxlen=maxlen).append(x)
deque_append(d, maxlen, x) ==
    IF Len(d) < maxlen THEN Append(d, x) ELSE Append(Tail(d), x)

\* _get_memory: the memories once the deque of the key exists.
_get_memory(memories, video_id, user_id) ==
    LET key == memory_key(user_id, video_id) IN
    IF key \in DOMAIN memories THEN memories
    ELSE [k \in DOMAIN memories \cup {key} |->
             IF k = key THEN <<>> ELSE memories[k]]

\* _get_memory_messages: list(memory)
_get_memory_messages(memories, video_id, user_id) ==
    _get_memory(memories, video_id, user_id)[memory_key(user_id, video_id)]

\* A window that holds one message more than K pairs.
_add_to_memory_odd_window(memories, video_id, user_id, human_msg, ai_msg) ==
    LET key == memory_key(user_id, video_id)
        m == _get_memory(memories, video_id, user_id)
        maxlen == _memory_window_size * 2 + 1
        d1 == deque_append(m[key], maxlen, HumanMessage(human_msg))
        d2 == deque_append(d1, maxlen, AIMessage(ai_msg))
    IN [m EXCEPT ![key] = d2]

_add_to_memory(memories, video_id, user_id, human_msg, ai_msg) ==
    LET key == memory_key(user_id, video_id)
        m == _get_memory(memories, video_id, user_id)
        maxlen == _memory_window_size * 2
        d1 == deque_append(m[key], maxlen, HumanMessage(human_msg))
        d2 == deque_append(d1, maxlen, AIMessage(ai_msg))
    IN [m EXCEPT ![key] = d2]

clear_user_memory(memories, video_id, user_id) ==
    LET key == memory_key(user_id, video_id) IN
    [k \in DOMAIN memories \ {key} |-> memories[k]]

\* The ordinal of the next turn of a memory.
NextOrdinal(history) ==
    IF history = <<>> THEN 1 ELSE history[Len(history)].content + 1

\* LLMService.__init__ (llm_server.py:89-91)
InitMemory ==
    /\ StreamIdle /\ SamplerIdle /\ CacheIdle /\ KeyIdle
    /\ MemoryIdle

\* POST /api/chat, answered (chat.py:56-82, llm_server.py:355-370).
Chat(header, host, video_context) ==
    /\ turns < MaxTurns
    /\ LET user_id == ChatUserId(header, host)
           video_id == ChatVideoId(video_context)
           chat_history ==
               _get_memory_messages(chat_memories, video_id, user_id)
           n == NextOrdinal(chat_history)
       IN /\ chat_memories' =
                 _add_to_memory(chat_memories, video_id, user_id, n, n)
          /\ last_chat' = [header |-> header, host |-> host,
                           video |-> video_id, user |-> user_id,
                           op |-> "chat", history |-> chat_history]
          /\ run' = IF run.user = user_id /\ run.video = video_id
                    THEN [run EXCEPT !.pairs = Append(@, n)]
                    ELSE [user |-> user_id, video |-> video_id,
                          pairs |-> <<n>>]
    /\ turns' = turns + 1
    /\ UNCHANGED <<stream_vars, sampler_vars, cache_vars, key_vars>>

\* POST /api/chat when chain.invoke raises (llm_server.py:361, chat.py:84):
\* the history was read, nothing is added.
ChatFailed(header, host, video_context) ==
    /\ turns < MaxTurns
    /\ LET user_id == ChatUserId(header, host)
           video_id == ChatVideoId(video_context)
       IN /\ chat_memories' = _get_memory(chat_memories, video_id, user_id)
          /\ last_chat' = [header |-> header, host |-> host,
                           video |-> video_id, user |-> user_id,
                           op |-> "failed",
                           history |-> _get_memory_messages(
                                           chat_memories, video_id, user_id)]
    /\ turns' = turns + 1
    /\ UNCHANGED <<run, stream_vars, sampler_vars, cache_vars, key_vars>>

\* LLMService.clear_user_memory (llm_server.py:111-115)
ClearMemory(user_id, video_id) ==
    /\ turns < MaxTurns
    /\ chat_memories' = clear_user_memory(chat_memories, video_id, user_id)
    /\ last_chat' = [header |-> "", host |-> "", video |-> video_id,
                     user |-> user_id, op |-> "clear", history |-> <<>>]
    /\ run' = NoRun
    /\ turns' = turns + 1
    /\ UNCHANGED <<stream_vars, sampler_vars, cache_vars, key_vars>>

NextMemory ==
    \/ \E r \in ChatRequests : Chat(r[1], r[2], r[3])
    \/ \E r \in ChatRequests : ChatFailed(r[1], r[2], r[3])
    \/ \E s \in Sessions : ClearMemory(s[1], s[2])

SpecMemory == InitMemory /\ [][NextMemory]_vars

\* The pairs as the messages a memory holds for them.
Messages(pairs) ==
    [i \in 1..(2 * Len(pairs)) |->
        IF i % 2 = 1 THEN HumanMessage(pairs[(i + 1) \div 2])
        ELSE AIMessage(pairs[i \div 2])]

LastPairs(pairs, k) == SubSeq(pairs, Len(pairs) - k + 1, Len(pairs))

\* C6: after N > K (K = 5) appends in a row to one session, reading the
\* session returns the last K pairs, oldest first, each question directly
\* followed by its answer.
C6_WindowIsLastPairs ==
    Len(run.pairs) > _memory_window_size =>
        _get_memory_messages(chat_memories, run.video, run.user)
            = Messages(LastPairs(run.pairs, _memory_window_size))

C6_Witness ==
    /\ Len(run.pairs) > _memory_window_size
    /\ Len(_get_memory_messages(chat_memories, run.video, run.user))
           = 2 * _memory_window_size

\* C7: an append to, or a clear of, one session leaves the window read for
\* every other (user identifier, video identifier) pair unchanged.
C7_OtherSessionsUnchanged ==
    [][last_chat'.op \in {"chat", "clear"} =>
          \A s \in Sessions :
              s # <<last_chat'.user, last_chat'.video>> =>
                  _get_memory_messages(chat_memories', s[2], s[1])
                      = _get_memory_messages(chat_memories, s[2], s[1])]_vars

\* C8 as stated: a chat turn without X-Session-ID is given an empty history.
C8_AnonymousTurnMemoryless ==
    (last_chat.op = "chat" /\ last_chat.header = "") =>
        last_chat.history = <<>>

\* C8, amended: a chat turn without X-Session-ID is stored under the user
\* identifier taken from the client host ("anonymous" when the host is not
\* known): right after it the window of (that identifier, video) ends with
\* the turn's question and answer, and when the turn follows another turn
\* of that session its history ends with that other turn.
C8_AnonymousTurnStoredByHost ==
    (last_chat.op = "chat" /\ last_chat.header = "") =>
        LET user == IF last_chat.host # "" THEN last_chat.host
                    ELSE "anonymous"
            window == _get_memory_messages(chat_memories, last_chat.video,
                                           user)
            n == NextOrdinal(last_chat.history)
            history == last_chat.history
            before == run.pairs[Len(run.pairs) - 1]
        IN /\ Len(window) >= 2
           /\ SubSeq(window, Len(window) - 1, Len(window))
                  = <<HumanMessage(n), AIMessage(n)>>
           /\ run.user = user
           /\ Len(run.pairs) >= 2 =>
                  /\ Len(history) >= 2
                  /\ SubSeq(history, Len(history) - 1, Len(history))
                         = <<HumanMessage(before), AIMessage(before)>>

\* A turn without X-Session-ID that was given the turns stored before it.
C8_Witness ==
    /\ last_chat.op = "chat"
    /\ last_chat.header = ""
    /\ Len(run.pairs) >= 2
    /\ last_chat.history # <<>>

--------------------------------------------------------------------------
(* SearchYouTubeService.search_youtube (youtube_search_service.py:144-242) *)
(* and its class-wide cachetools.TTLCache(maxsize=100, ttl=600).  Callers  *)
(* are coroutines of one event loop: a call runs without interruption up   *)
(* to its `await client.get` and again from the response to its return.    *)
(* The sha256 of hash_object is taken to be injective: a key is the        *)
(* serialization it hashes.  A result is called by the ordinal of the      *)
(* upstream request that fetched it.                                       *)

MaxTime == 900

MaxFetches == 3

\* TTLCache(maxsize=100, ttl=600)
CacheMaxSize == 100
Ttl == 600

\* The seconds that pass between two steps.
TimeSteps == {300}

\* The fields of SearchYouTubeParams in the order of their declaration
\* (youtube_search_service.py:53-61), and in the order json.dumps gives
\* them with sort_keys=True.
FieldOrder ==
    <<"search_query", "engine", "gl", "hl", "sp", "duration", "limit">>
SortedKeys ==
    <<"duration", "engine", "gl", "hl", "limit", "search_query", "sp">>

\* The value of field `name` in a sequence of <<name, value>> items.
ItemOf(items, name) ==
    items[CHOOSE i \in 1..Len(items) : items[i][1] = name][2]

HasItem(items, name) == \E i \in 1..Len(items) : items[i][1] = name

\* SearchYouTubeParams(**kwargs): kwargs are the keyword arguments as the
\* caller wrote them, a sequence of <<name, value>>.  The value of an
\* Optional field is <<>> for None and <<v>> otherwise; a field that is
\* not given takes its default.
SearchYouTubeParams(kwargs) ==
    [f \in {FieldOrder[i] : i \in 1..Len(FieldOrder)} |->
        IF HasItem(kwargs, f) THEN ItemOf(kwargs, f)
        ELSE IF f = "engine" THEN <<"youtube">>
        ELSE <<>>]

SearchParams ==
    {SearchYouTubeParams(<<<<"search_query", <<"q1">>>>>>),
     SearchYouTubeParams(<<<<"search_query", <<"q1">>>>, <<"gl", <<"us">>>>,
                           <<"limit", <<5>>>>>>)}

\* A dump that leaves the filter fields out, as the upstream request
\* parameters do.
params_dict_without_filters(params) ==
    LET Kept(f) == params[f] # <<>> /\ f \notin {"duration", "limit"}
        fields == SelectSeq(FieldOrder, Kept)
    IN [n \in 1..Len(fields) |-> <<fields[n], params[fields[n]][1]>>]

\* params.model_dump(exclude_none=True): a dict, which keeps its items in
\* the order of the fields.
params_dict(params) ==
    LET Kept(f) == params[f] # <<>>
        fields == SelectSeq(FieldOrder, Kept)
    IN [n \in 1..Len(fields) |-> <<fields[n], params[fields[n]][1]>>]

\* json.dumps(obj, sort_keys=True): the items of the dict by key.  A
\* string and a number are written differently, as they are different
\* values here.
json_dumps(obj) ==
    LET Present(k) == HasItem(obj, k)
        keys == SelectSeq(SortedKeys, Present)
    IN [n \in 1..Len(keys) |-> <<keys[n], ItemOf(obj, keys[n])>>]

\* hash_object: the SHA-256 digest of the dump.  Two dumps are taken to
\* have one digest only when they are equal, so a digest is shown as the
\* dump it is the digest of.
hash_object(obj) == json_dumps(obj)

\* A membership test that does not look at the expiry time.
ContainsExpired(c, key, time) == key \in DOMAIN c

\* TTLCache.__contains__
Contains(c, key, time) ==
    key \in DOMAIN c /\ time < c[key].expires

\* TTLCache.__getitem__ of a key it contains: the link moves to the end.
MoveToEnd(l, key) ==
    LET Other(k) == k # key IN Append(SelectSeq(l, Other), key)

\* A store that keeps nothing.
SetItemDropped(c, l, key, value, time) == [cache |-> c, links |-> l]

\* TTLCache.__setitem__: expire(time), Cache.__setitem__ (which pops the
\* least recently used item when the cache is full), then the link.
SetItem(c, l, key, value, time) ==
    LET Live(k) == time < c[k].expires
        l1 == SelectSeq(l, Live)
        known == \E i \in 1..Len(l1) : l1[i] = key
        l2 == IF ~known /\ Len(l1) + 1 > CacheMaxSize THEN Tail(l1) ELSE l1
        l3 == MoveToEnd(l2, key)
    IN [cache |-> [k \in {l3[i] : i \in 1..Len(l3)} |->
                      IF k = key
                      THEN [value |-> value, expires |-> time + Ttl]
                      ELSE c[k]],
        links |-> l3]

\* When the entry of the key was inserted, seen from `time`.
Age(ins, key, time) ==
    IF key \in DOMAIN ins THEN time - ins[key] ELSE -1

\* The cache key of each search (youtube_search_service.py:162-163).
CacheKeys == [p \in SearchParams |-> hash_object(params_dict(p))]

InitCache ==
    /\ StreamIdle /\ SamplerIdle /\ MemoryIdle /\ KeyIdle
    /\ CacheIdle

\* search_youtube up to its return from the cache or to `await client.get`
\* (youtube_search_service.py:158-176).
Search(caller, params) ==
    /\ call[caller].at # "awaiting"
    /\ LET cache_key == CacheKeys[params]
           age == Age(inserted_at, cache_key, now)
           stored == IF cache_key \in DOMAIN cache
                     THEN cache[cache_key].value ELSE -1
       IN IF Contains(cache, cache_key, now)
          THEN /\ call' = [call EXCEPT ![caller] =
                      [at |-> "returned", key |-> cache_key, age |-> age,
                       outcome |-> "hit", value |-> cache[cache_key].value,
                       stored |-> stored]]
               /\ links' = MoveToEnd(links, cache_key)
               /\ UNCHANGED fetches
          ELSE /\ fetches < MaxFetches
               /\ call' = [call EXCEPT ![caller] =
                      [at |-> "awaiting", key |-> cache_key, age |-> age,
                       outcome |-> "miss", value |-> fetches + 1,
                       stored |-> stored]]
               /\ fetches' = fetches + 1
               /\ UNCHANGED links
    /\ UNCHANGED <<cache, now, inserted_at, last_ok>>
    /\ UNCHANGED <<stream_vars, sampler_vars, memory_vars, key_vars>>

\* The response arrives: the result is stored and returned
\* (youtube_search_service.py:180-216).
UpstreamOk(caller) ==
    /\ call[caller].at = "awaiting"
    /\ LET set == SetItem(cache, links, call[caller].key,
                          call[caller].value, now)
       IN /\ cache' = set.cache
          /\ links' = set.links
    /\ inserted_at' =
           [k \in DOMAIN inserted_at \cup {call[caller].key} |->
               IF k = call[caller].key THEN now ELSE inserted_at[k]]
    /\ last_ok' =
           [k \in DOMAIN last_ok \cup {call[caller].key} |->
               IF k = call[caller].key
               THEN [value |-> call[caller].value, at |-> now]
               ELSE last_ok[k]]
    /\ call' = [call EXCEPT ![caller].at = "returned"]
    /\ UNCHANGED <<now, fetches>>
    /\ UNCHANGED <<stream_vars, sampler_vars, memory_vars, key_vars>>

\* A failure that is remembered: the key gets an entry with no result.
UpstreamFailCached(caller) ==
    /\ call[caller].at = "awaiting"
    /\ LET set == SetItem(cache, links, call[caller].key, -1, now)
       IN /\ cache' = set.cache
          /\ links' = set.links
    /\ call' = [call EXCEPT ![caller].at = "raised"]
    /\ UNCHANGED <<now, inserted_at, fetches, last_ok>>
    /\ UNCHANGED <<stream_vars, sampler_vars, memory_vars, key_vars>>

\* The request fails: YouTubeSearchError (youtube_search_service.py:218-242).
UpstreamFail(caller) ==
    /\ call[caller].at = "awaiting"
    /\ call' = [call EXCEPT ![caller].at = "raised"]
    /\ UNCHANGED <<cache, links, now, inserted_at, fetches, last_ok>>
    /\ UNCHANGED <<stream_vars, sampler_vars, memory_vars, key_vars>>

\* clear_cache (youtube_search_service.py:244-247)
ClearCache ==
    /\ cache # <<>>
    /\ cache' = <<>>
    /\ links' = <<>>
    /\ last_ok' = <<>>
    /\ UNCHANGED <<now, call, inserted_at, fetches>>
    /\ UNCHANGED <<stream_vars, sampler_vars, memory_vars, key_vars>>

\* The timer of the cache (time.monotonic) advances.
Tick(seconds) ==
    /\ now + seconds <= MaxTime
    /\ now' = now + seconds
    /\ UNCHANGED <<cache, links, call, inserted_at, fetches, last_ok>>
    /\ UNCHANGED <<stream_vars, sampler_vars, memory_vars, key_vars>>

NextCache ==
    \/ \E c \in Callers, p \in SearchParams : Search(c, p)
    \/ \E c \in Callers : UpstreamOk(c)
    \/ \E c \in Callers : UpstreamFail(c)
    \/ ClearCache
    \/ \E d \in TimeSteps : Tick(d)

SpecCache == InitCache /\ [][NextCache]_vars

--------------------------------------------------------------------------
(* The cache keys of two searches                                          *)
(* (youtube_search_service.py:72-79, 162-163)                              *)

\* An argument of a call: given or not, and its value when given.
Omitted == [given |-> FALSE, value |-> <<>>]
Given(value) == [given |-> TRUE, value |-> value]

Reverse(seq) == [i \in 1..Len(seq) |-> seq[Len(seq) + 1 - i]]

\* The keyword arguments of a search, in the order of the fields or in
\* the reverse order.
Kwargs(search_query, engine, gl, duration, limit, reversed) ==
    LET args == << <<"search_query", Given(<<search_query>>)>>,
                   <<"engine", engine>>, <<"gl", gl>>,
                   <<"duration", duration>>, <<"limit", limit>> >>
        IsGiven(a) == a[2].given
        given == SelectSeq(args, IsGiven)
        items == [n \in 1..Len(given) |-> <<given[n][1], given[n][2].value>>]
    IN IF reversed THEN Reverse(items) ELSE items

\* The searches whose keys are compared: an optional field is left out,
\* None or set; engine is left out or "youtube".
KeyRequests ==
    {Kwargs(q, e, g, d, l, r) :
        q \in {"q1", "q2"},
        e \in {Omitted, Given(<<"youtube">>)},
        g \in {Omitted, Given(<<>>), Given(<<"us">>)},
        d \in {Omitted, Given(<<"short">>)},
        l \in {Omitted, Given(<<>>), Given(<<5>>), Given(<<10>>)},
        r \in BOOLEAN}

InitKey ==
    /\ StreamIdle /\ SamplerIdle /\ MemoryIdle /\ CacheIdle
    /\ k_pc = "input"
    /\ k_first \in KeyRequests
    /\ k_second \in KeyRequests
    /\ k_keys = <<>>

\* youtube_search_service.py:162-163 for each of the two searches
DeriveKeys ==
    /\ k_pc = "input"
    /\ k_keys' = <<hash_object(params_dict(SearchYouTubeParams(k_first))),
                   hash_object(params_dict(SearchYouTubeParams(k_second)))>>
    /\ k_pc' = "hashed"
    /\ UNCHANGED <<k_first, k_second>>
    /\ UNCHANGED <<stream_vars, sampler_vars, memory_vars, cache_vars>>

NextKey == DeriveKeys

SpecKey == InitKey /\ [][NextKey]_vars

\* C9: at most one upstream request per cache key is outstanding at any
\* time.
C9_SingleFlight ==
    \A c1 \in Callers, c2 \in Callers :
        (/\ call[c1].at = "awaiting"
         /\ call[c2].at = "awaiting"
         /\ call[c1].key = call[c2].key) => c1 = c2

\* C10: a lookup made more than ttl seconds after the entry of its key was
\* inserted is a miss: search_youtube goes upstream and what it returns is
\* not the stored value.
C10_ExpiredLookupIsMiss ==
    \A c \in Callers :
        call[c].age > Ttl =>
            /\ call[c].outcome = "miss"
            /\ call[c].value # call[c].stored

\* A lookup made more than ttl seconds after the insertion, while the entry
\* was still stored, that went upstream and returned the new result.
C10_Witness ==
    \E c \in Callers :
        /\ call[c].age > Ttl
        /\ call[c].stored # -1
        /\ call[c].at = "returned"
        /\ call[c].outcome = "miss"

--------------------------------------------------------------------------
(* Claims about a whole request *)

TerminalEventIndexes ==
    {i \in 1..Len(events) : events[i].type \in {"done", "cached", "error"}}

\* C11: every request eventually delivers a terminal event (done, cached
\* or error), and once the generation stream has ended or failed the
\* request is never without one.
C11_TerminalEventDelivered ==
    /\ <>(TerminalEventIndexes # {})
    /\ [](pc \notin {"start", "stream"} => TerminalEventIndexes # {})

\* The stream was consumed to its end and the done event delivered.
C11_Witness ==
    /\ pc = "done"
    /\ full_response = llm_text
    /\ events[Len(events)].type = "done"

\* C12: exactly one terminal event is emitted and no event follows it; an
\* error event never follows a done event.
C12_OneTerminalEventLast ==
    pc # "start" =>
        \A i \in TerminalEventIndexes : i = Len(events)

\* The stream ended (it did not fail) and the generator went past its
\* final parse.
StreamEnded == pc \in {"done", "finished", "error"}

ErrorEventIndexes == {i \in 1..Len(events) : events[i].type = "error"}

\* The request ended with one done event, no error event, and the done
\* document is the skeleton of main.py:1461 (with the chapter list, and
\* the title of the chapter lookup when it returned one).
EndsWithSkeleton ==
    /\ ErrorEventIndexes = {}
    /\ Cardinality(DoneEventIndexes) = 1
    /\ events[Len(events)].type = "done"
    /\ \E t \in ChapterTitles :
           events[Len(events)].data = WithChapters(FallbackDocument, t)

\* C13 as stated: when the text accumulated at stream end is not valid
\* JSON, the request ends with a done event and no error event, and the
\* done document is the fallback skeleton (externally supplied title,
\* empty section list).
C13_InvalidJsonGivesSkeleton ==
    (StreamEnded /\ ~JsonLoads(full_response).ok) => EndsWithSkeleton

\* Neither parse_analysis_result nor json.loads of the text without its
\* fences yields a document.
NothingSalvaged(response) ==
    /\ ~parse_analysis_result(response).ok
    /\ ~JsonLoads(StripTrailFence(StripLeadFence(response))).ok

\* C13 amended: when neither the final parser (fences stripped, first
\* brace to its matching brace) nor a direct parse of the unfenced text
\* yields a document, the request ends with a done event and no error
\* event, and the done document is the fallback skeleton.
C13_NothingSalvagedGivesSkeleton ==
    (StreamEnded /\ NothingSalvaged(full_response)) => EndsWithSkeleton

C13_Witness ==
    /\ pc = "finished"
    /\ Len(full_response) > 3
    /\ NothingSalvaged(full_response)
    /\ EndsWithSkeleton

\* C14: when the generation stream raises after some fragments were
\* consumed, the pipeline emits an error event as its last event and no
\* done event, keeps the events already emitted and the text already
\* accumulated, consumes nothing more, and the stream is invoked once
\* per request (no retry).
C14_StreamFailureStops ==
    /\ [](llm_calls <= 1)
    /\ [](pc = "failed" =>
              /\ ErrorEventIndexes = {Len(events)}
              /\ DoneEventIndexes = {})
    /\ [][(pc = "stream" /\ pc' = "failed") =>
              /\ SubSeq(events', 1, Len(events)) = events
              /\ full_response' = full_response]_vars
    /\ [][pc # "failed"]_vars

C14_Witness ==
    /\ pc = "failed"
    /\ full_response # <<>>
    /\ Len(full_response) < Len(llm_text)
    /\ SectionEventIndexes # {}
    /\ events[Len(events)].type = "error"

\* The store held a document for the video when the request arrived, and
\* the request asks for the default language.
HeldDocument ==
    /\ pc # "start"
    /\ request.video_id_ok
    /\ request.language = "en"
    /\ request.held.found
    /\ Truthy(request.held.video_data)

\* The events of the request are one cached event carrying the held
\* document; the generation stream was not invoked and the store was not
\* written.
ServedFromStore ==
    /\ events = <<Event("cached", request.held.video_data)>>
    /\ llm_calls = 0
    /\ store_writes = 0
    /\ store = request.held

RECURSIVE Flatten(_)
Flatten(segs) ==
    IF segs = <<>> THEN <<>> ELSE segs[1] \o Flatten(Tail(segs))

OverBudget == TextLen(s_lines) > s_max_chars

\* Each segment is a run of consecutive input lines, and the lines of the
\* returned text are in the order of the input, none of them twice.
ContiguousInOrder ==
    /\ \A g \in 1..Len(s_out) : \A k \in 1..(Len(s_out[g]) - 1) :
           s_out[g][k + 1].line = s_out[g][k].line + 1
    /\ LET out == Flatten(s_out) IN
       \A k \in 1..(Len(out) - 1) : out[k].line < out[k + 1].line

\* C16 as stated: every line of the sampler's output is a whole,
\* unmodified input line, each segment is a contiguous run of input
\* lines, and the lines are in their original relative order, none split,
\* reordered or repeated.
C16_WholeLinesInOrder ==
    s_pc = "sampled" =>
        /\ \A g \in 1..Len(s_out) : \A k \in 1..Len(s_out[g]) :
               /\ s_out[g][k].line \in 1..Len(s_lines)
               /\ s_out[g][k].len = s_lines[s_out[g][k].line]
        /\ ContiguousInOrder

\* C16 amended: every line of the output is an input line, whole but for
\* the whitespace that starts or ends an over-budget text, which is
\* missing from its first and last line; segments are contiguous runs and
\* the order is the input's, no line split, reordered or repeated.
C16_LinesInOrderButStripped ==
    s_pc = "sampled" =>
        /\ \A g \in 1..Len(s_out) : \A k \in 1..Len(s_out[g]) :
               LET i == s_out[g][k].line IN
               /\ i \in 1..Len(s_lines)
               /\ s_out[g][k].len =
                      s_lines[i]
                      - (IF OverBudget /\ i = 1 THEN s_space.lead ELSE 0)
                      - (IF OverBudget /\ i = Len(s_lines)
                         THEN s_space.trail ELSE 0)
        /\ ContiguousInOrder

C16_Witness ==
    /\ s_pc = "sampled"
    /\ OverBudget
    /\ Len(s_lines) = 2 * num_segments
    /\ s_space = [lead |-> 1, trail |-> 1]
    /\ Len(s_out) = num_segments
    /\ \A g \in 1..Len(s_out) : Len(s_out[g]) = 2
    /\ Flatten(s_out)[2 * num_segments].len = s_lines[Len(s_lines)] - 1

\* C17: for every non-empty over-budget transcript the output holds at
\* least one whole input line, and with fewer lines than the segment
\* count each input line is a segment of its own, a line longer than the
\* budget included.
C17_NeverEmptyOneSegmentPerLine ==
    (s_pc = "sampled" /\ OverBudget) =>
        /\ Flatten(s_out) # <<>>
        /\ Len(s_lines) < num_segments =>
               /\ Len(s_out) = Len(s_lines)
               /\ \A i \in 1..Len(s_lines) :
                      /\ Len(s_out[i]) = 1
                      /\ s_out[i][1].line = i

\* C18: when the input is over budget the first segment starts at the
\* first line (index 0) and the last segment contains the final line,
\* for every number of input lines.
C18_FirstAndFinalLineSampled ==
    (s_pc = "sampled" /\ OverBudget) =>
        /\ s_out[1] # <<>>
        /\ s_out[1][1].line = 1
        /\ \E k \in 1..Len(s_out[Len(s_out)]) :
               s_out[Len(s_out)][k].line = Len(s_lines)

\* The name/value pairs of a search that are not None, the default of
\* engine among them.
NonNullPairs(kwargs) ==
    {<<kwargs[i][1], kwargs[i][2][1]>> :
         i \in {j \in 1..Len(kwargs) : kwargs[j][2] # <<>>}}
    \cup (IF HasItem(kwargs, "engine") THEN {}
          ELSE {<<"engine", "youtube">>})

\* C19: two searches get the same cache key exactly when their sets of
\* non-null name/value pairs are equal, whatever the order of the fields
\* and whether an unset field is left out or None; searches that differ
\* in a parameter, duration and limit included, get different keys.
C19_KeyEqualIffSamePairs ==
    k_pc = "hashed" =>
        ((k_keys[1] = k_keys[2])
            <=> (NonNullPairs(k_first) = NonNullPairs(k_second)))

C19_Witness ==
    /\ k_pc = "hashed"
    /\ k_keys[1] = k_keys[2]
    /\ Len(k_first) > Len(k_second)
    /\ k_first[1][1] # k_second[1][1]
    /\ HasItem(k_first, "limit") /\ HasItem(k_second, "limit")
    /\ HasItem(k_first, "gl") /\ ~HasItem(k_second, "gl")

SectionEventsOf(id, n) ==
    {i \in SectionEventIndexes :
        i < n /\ Get(events[i].data, "id:").s = id}

\* C21: for every stream that completes, each section id of the document
\* carried by the done event is the id of exactly one section event
\* emitted before the done event.
C21_FinalSectionsEmittedBefore ==
    \A d \in DoneEventIndexes :
        \A id \in SectionIds(events[d].data) :
            Cardinality(SectionEventsOf(id, d)) = 1

\* C22: the store is written only after the stream has completed and the
\* done event was emitted; a request whose stream failed or that was
\* cancelled has written nothing to the store, and a request writes
\* nothing to the chat memory or to the search cache.
C22_StoreWrittenOnlyAfterDone ==
    /\ [][store' # store \/ store_writes' # store_writes =>
              /\ pc = "done"
              /\ full_response = full_response'
              /\ events[Len(events)].type = "done"
              /\ store' = [found |-> TRUE,
                           video_data |-> events[Len(events)].data]]_vars
    /\ [](pc \in {"failed", "cancelled"} =>
              /\ store_writes = 0
              /\ store = request.held)
    /\ [](chat_memories = <<>> /\ cache = <<>>)

C22_Witness ==
    /\ pc = "cancelled"
    /\ SectionEventIndexes # {}
    /\ DoneEventIndexes = {}
    /\ request.held = NoRecord
    /\ store = NoRecord

\* The window is made of at most K whole pairs: a question, then the
\* answer of the same call.
WholePairs(window) ==
    /\ Len(window) % 2 = 0
    /\ Len(window) <= 2 * _memory_window_size
    /\ \A i \in 1..Len(window) :
           IF i % 2 = 1
           THEN /\ window[i].role = "human"
                /\ window[i + 1].role = "ai"
                /\ window[i + 1].content = window[i].content
           ELSE TRUE

\* C23: whatever the order in which the chat turns of a session are
\* served, its window is made of whole pairs, at most K of them, and a
\* turn changes the window by dropping whole pairs at its front and
\* adding one pair at its end.
C23_WindowOfWholePairs ==
    /\ [](\A key \in DOMAIN chat_memories : WholePairs(chat_memories[key]))
    /\ [][\A key \in DOMAIN chat_memories \cap DOMAIN chat_memories' :
              LET old == chat_memories[key]
                  new == chat_memories'[key]
              IN new # old =>
                     /\ Len(new) >= 2
                     /\ \E dropped \in {0, 1} :
                            SubSeq(new, 1, Len(new) - 2)
                                = SubSeq(old, 2 * dropped + 1, Len(old))]_vars

C23_Witness ==
    \E key \in DOMAIN chat_memories :
        /\ Len(chat_memories[key]) = 2 * _memory_window_size
        /\ chat_memories[key][1].content = 2
        /\ last_chat.op = "chat"
        /\ WholePairs(chat_memories[key])

\* The brace-balanced candidate objects that the scan of the sections
\* array meets from index i0 on, in the order of the buffer
\* (main.py:1390-1418 without the parsing).
RECURSIVE Candidates(_, _)
Candidates(text, i0) ==
    LET i == SkipSeparators(text, i0) IN
    IF i > Len(text) \/ text[i] = "]" THEN <<>>
    ELSE IF text[i] # "{" THEN Candidates(text, i + 1)
    ELSE LET j == BraceClose(text, i, 0) IN
         IF j = 0 THEN <<>>
         ELSE <<SubSeq(text, i, j)>> \o Candidates(text, j + 1)

SectionCandidates(content) ==
    LET text == StripLeadFence(content)
        m == FindKeyOpen(text, "sections:", "[")
    IN IF m = 0 THEN <<>> ELSE Candidates(text, m + 2)

\* Whether the candidate parses into an object with a non-empty string id.
ParsesWithId(cand) ==
    LET r == JsonLoads(cand) IN
    /\ r.ok
    /\ HasKey(r.val, "id:")
    /\ Get(r.val, "id:").k = "str"
    /\ Get(r.val, "id:").s # <<>>

\* The ids of the section events, in the order of the events.
EmittedIdSeq ==
    LET IsSection(ev) == ev.type = "section"
        evs == SelectSeq(events, IsSection)
    IN [n \in 1..Len(evs) |-> Get(evs[n].data, "id:").s]

\* Where in the buffer the first parseable candidate with the id is.
FirstCandidate(cands, id) ==
    CHOOSE n \in 1..Len(cands) :
        /\ ParsesWithId(cands[n]) /\ Get(JsonLoads(cands[n]).val, "id:").s = id
        /\ \A m \in 1..(n - 1) :
               ~(ParsesWithId(cands[m])
                 /\ Get(JsonLoads(cands[m]).val, "id:").s = id)

\* C24: a brace-balanced candidate of the sections array that fails to
\* parse adds nothing to the emitted-id set (the set holds the ids of the
\* parseable candidates only, each of them emitted), and the section
\* events come in the order of the buffer: no section is emitted before
\* one that precedes it in the buffer and is emitted too.
C24_EmittedInBufferOrder ==
    LET cands == SectionCandidates(full_response)
        parsed == {n \in 1..Len(cands) : ParsesWithId(cands[n])}
        ids == {Get(JsonLoads(cands[n]).val, "id:").s : n \in parsed}
        emitted == EmittedIdSeq
    IN /\ sent_section_ids = ids
       /\ {emitted[n] : n \in 1..Len(emitted)} = ids
       /\ \A a \in 1..Len(emitted) : \A b \in (a + 1)..Len(emitted) :
              FirstCandidate(cands, emitted[a])
                  < FirstCandidate(cands, emitted[b])

C24_Witness ==
    LET cands == SectionCandidates(full_response) IN
    /\ Len(EmittedIdSeq) = 2
    /\ Len(cands) = 3
    /\ ~ParsesWithId(cands[1])
    /\ EmittedIdSeq = << <<"<s1>">>, <<"<s2>">> >>
    /\ pc = "stream"

VideoInfoEventIndexes ==
    {i \in 1..Len(events) : events[i].type = "video_info"}

\* C25: within one stream the summary event is emitted at most once and
\* no section event is emitted before it, whatever the order of the keys
\* in the generated text.
C25_SummaryOnceBeforeSections ==
    /\ Cardinality(VideoInfoEventIndexes) <= 1
    /\ \A v \in VideoInfoEventIndexes : \A i \in SectionEventIndexes : v < i

\* The span that a string-aware counter takes from the first "{" of the
\* fence-stripped text, parsed: [ok, val].
QuoteAwareObject(raw_text) ==
    LET text == StripTrailFence(StripLeadFence(raw_text))
        start == FindBrace(text)
        close == IF start = 0 THEN 0
                 ELSE QuoteAwareClose(text, start, 0, FALSE)
    IN IF close = 0 THEN NoValue
       ELSE JsonLoads(SubSeq(text, start, close))

\* C26: the final parser counts braces only outside quoted strings: when
\* the stream has ended and the text holds, from its first "{" to the "}"
\* that matches it outside strings, an object of the canonical schema,
\* parse_analysis_result returns the parse of that object.
C26_FinalParserStringAware ==
    (DoneEventIndexes # {}
     /\ QuoteAwareObject(full_response).ok
     /\ ValidVideoAnalysisResult(QuoteAwareObject(full_response).val))
        => parse_analysis_result(full_response) =
               [ok |-> TRUE,
                val |-> model_dump(QuoteAwareObject(full_response).val)]

\* C27: every done event carries a document that has both a summary
\* object (videoInfo) and a sections list, whichever path produced it.
C27_DoneDocumentHasSummaryAndSections ==
    \A d \in DoneEventIndexes :
        /\ HasKey(events[d].data, "videoInfo:")
        /\ Get(events[d].data, "videoInfo:").k = "obj"
        /\ HasKey(events[d].data, "sections:")
        /\ Get(events[d].data, "sections:").k = "arr"

\* C28: a search whose upstream request fails raises and leaves the
\* cache as it was; a search whose key has no live entry goes upstream,
\* also after a failure for that key; and every entry of the cache holds
\* the result of the last successful upstream lookup for its key.
C28_FailureLeavesCacheUnchanged ==
    /\ [][\A c \in Callers :
              (call[c].at = "awaiting" /\ call'[c].at = "raised")
                  => (cache' = cache /\ links' = links
                      /\ inserted_at' = inserted_at)]_vars
    /\ [][\A c \in Callers :
              (call'[c] # call[c] /\ call[c].at # "awaiting"
               /\ ~Contains(cache, call'[c].key, now))
                  => (call'[c].at = "awaiting"
                      /\ fetches' = fetches + 1)]_vars
    /\ [](\A k \in DOMAIN cache :
              /\ k \in DOMAIN last_ok
              /\ cache[k].value = last_ok[k].value)

\* One search has failed, a second one for the same key is upstream on a
\* later request, and the cache holds no entry.
C28_Witness ==
    /\ call["c1"].at = "raised"
    /\ call["c2"].at = "awaiting"
    /\ call["c2"].key = call["c1"].key
    /\ call["c2"].value > call["c1"].value
    /\ cache = <<>>
    /\ inserted_at = <<>>

\* The request is over and the last event it sent is a done event.
EndedWithDone ==
    /\ pc \in {"finished", "cancelled"}
    /\ events # <<>>
    /\ events[Len(events)].type = "done"

OneScanIds ==
    LET new == try_parse_sections(full_response, {}).new
    IN [n \in 1..Len(new) |-> Get(new[n], "id:").s]
OneScanSummary ==
    /\ try_parse_video_info(full_response).ok
    /\ Truthy(try_parse_video_info(full_response).val)

\* The section ids sent so far and whether the summary was sent are those
\* of one scan of the buffer, however the buffer arrived.
SameAsOneScan ==
    /\ EmittedIdSeq = OneScanIds
    /\ video_info_sent = OneScanSummary

\* C30: what incremental extraction has emitted depends on the text
\* received, not on its fragments: the sequence of section ids and
\* whether the summary was emitted are those of one scan of the buffer,
\* and the summary event is there exactly once as soon as the summary
\* object is closed and parseable in the buffer, and not before.
C30_OutcomeIndependentOfFragments ==
    full_response # <<>> =>
        /\ SameAsOneScan
        /\ Cardinality(VideoInfoEventIndexes) =
               (IF QuoteAwareVideoInfo(full_response).ok THEN 1 ELSE 0)
====
